---- MODULE Spec2Model ----
(***************************************************************************)
(* Exam turn-flow controller of the Kuleli English Centre application      *)
(* (components/ExamMode.tsx).                                              *)
(*                                                                         *)
(* The component is a React function component.  Its state is the useState *)
(* cells and useRef cells; every handler is a closure over the values of   *)
(* the render in which it was created.  A handler that continues after an  *)
(* await (getUserMedia, processStudentInput, synthesizeSpeech, ...) or is   *)
(* installed as a callback (MediaRecorder.onstop, audio.onended) therefore *)
(* keeps reading the `part` and `status` of that older render, while refs   *)
(* (turnCountRef, isNewPartRef, autoAdvanceRef, mediaRecorderRef) are read  *)
(* live.  The model carries that captured environment in every operation   *)
(* in flight.                                                              *)
(*                                                                         *)
(* State updates of one handler are batched: the handler, the render that  *)
(* follows it and the effects of that render form one step.                *)
(***************************************************************************)
EXTENDS Integers, FiniteSets, Sequences, Bags, TLC

\* ExamPart (types.ts): INTRO = 1, PICTURE = 2, DISCUSSION = 3
INTRO == 1
PICTURE == 2
DISCUSSION == 3
ExamPart == {INTRO, PICTURE, DISCUSSION}

\* ExamStatus (types.ts)
IDLE == "IDLE"
AI_SPEAKING == "AI_SPEAKING"
USER_PREP == "USER_PREP"
USER_SPEAKING == "USER_SPEAKING"
PROCESSING == "PROCESSING"
PART_COMPLETED == "PART_COMPLETED"
COMPLETED == "COMPLETED"
ExamStatus == {IDLE, AI_SPEAKING, USER_PREP, USER_SPEAKING, PROCESSING, PART_COMPLETED, COMPLETED}

\* countdown lengths set by handleAiFinishedSpeaking / handlePrepDone
PrepTime == 60
SpeakTime == 120
\* "Main Answer + 2 Follow-ups = 3 Turns max" (handleSubmission)
TurnLimit == 3

\* ---- bounds of the model ----
\* asynchronous operations (topic generation, speech synthesis, getUserMedia,
\* evaluation requests) that may be outstanding at the same time
MaxInFlight == 2
\* largest value the turn counter is followed to
TurnBound == 4
\* consecutive firings of the 1 s interval taken as one step of the model
\* (other events interleave between strides, not between single seconds)
TickStride == 40
\* value at which the count of expiry transitions of one countdown saturates
ExpiryCap == 2
\* consecutive firings of the 1 s interval of WritingMode taken as one step
WritingStride == 400
\* requests of WritingMode (topic, evaluation) outstanding at the same time
MaxWritingRequests == 2
\* value at which the count of automatic submissions saturates
AutoSubmitCap == 2
\* submissions of FreeSpeakingMode that are followed
MaxSubmissions == 2
\* retries of one processStudentInput call of FreeSpeakingMode that are followed
\* (fetchWithRetry allows DefaultRetries)
RetryBound == 1

\* the absent value (null / undefined)
Null == [null |-> TRUE]

\* FeedbackData: the four sub-scores and the commentary
Feedback(ta, pr, gr, fl, txt) ==
  [taskAchievementScore |-> ta, pronunciationScore |-> pr, grammarScore |-> gr,
   fluencyCoherenceScore |-> fl, feedbackText |-> txt]

\* the record handleSkipPart writes
skippedFeedback == Feedback(0, 0, 0, 0, "Part skipped by student.")

\* feedback records the evaluation service may return
ServiceFeedbacks == { Feedback(4, 4, 4, 4, "evaluated") }

\* the four score fields of FeedbackData
ScoreKeys == {"taskAchievementScore", "pronunciationScore", "grammarScore", "fluencyCoherenceScore"}

\* maxScore named in the examiner prompt of processStudentInput, and pMax of
\* the results view
maxScore(p) == IF p = 1 THEN 5 ELSE 10
pMax(p) == IF p = 1 THEN 20 ELSE 40

\* score values the parsed JSON may carry
RawScores == {0, 4, 7, 8, 9, 11}

\* the parsed JSON of the evaluation: any of the score keys may be missing
RawJsons == UNION { [present -> RawScores] : present \in SUBSET ScoreKeys }

\* cleanedJson[key] || 0
orZero(json, key) == IF key \in DOMAIN json /\ json[key] # 0 THEN json[key] ELSE 0

\* the feedback object processStudentInput builds from the parsed JSON
feedbackOf(json) ==
  Feedback(orZero(json, "taskAchievementScore"), orZero(json, "pronunciationScore"),
           orZero(json, "grammarScore"), orZero(json, "fluencyCoherenceScore"), "evaluated")

\* the reducer of calculateTotalScore applied to one record
addScores(acc, f) ==
  acc + f.taskAchievementScore + f.pronunciationScore + f.grammarScore + f.fluencyCoherenceScore

\* variant of calculateTotalScore: the reducer leaves out fluencyCoherenceScore
RECURSIVE calculateTotalScore_NoFluency(_, _)
calculateTotalScore_NoFluency(history, keys) ==
  IF keys = {} THEN 0
  ELSE LET last == CHOOSE k \in keys : \A j \in keys : j <= k
           acc == calculateTotalScore_NoFluency(history, keys \ {last})
           f == history[last]
       IN acc + f.taskAchievementScore + f.pronunciationScore + f.grammarScore

\* calculateTotalScore: Object.values(resultsHistory).reduce(..., 0); keys are
\* the parts that have a record
RECURSIVE calculateTotalScore(_, _)
calculateTotalScore(history, keys) ==
  IF keys = {} THEN 0
  ELSE LET last == CHOOSE k \in keys : \A j \in keys : j <= k
       IN addScores(calculateTotalScore(history, keys \ {last}), history[last])

VARIABLES
  initialPart,       \* prop initialPart
  isStandalone,      \* prop isStandalone
  hasStarted, part, status, aiMessage, currentFeedback, resultsHistory,
  timeLeft, totalTime,
  isNewPartRef, autoAdvanceRef, turnCountRef,
  isRecording,
  mediaRecorderRef,  \* Null, or the environment captured by the recorder's onstop
  audio,             \* Null, or the environment captured by onended of the playing <audio>
  setupPending,      \* bag: setupNextPart calls awaiting generateExamTopic/Image
  synthPending,      \* bag: playAiAudio calls awaiting synthesizeSpeech
  micPending,        \* bag: startRecording calls awaiting getUserMedia
  evalPending,       \* bag: handleSubmission calls awaiting processStudentInput
  expiryCount,       \* history: times the timer effect called handleSpeakingDone
                     \* since setTimeLeft last started a countdown
  totalScore,        \* const totalScore of the results view (Null: not rendered)
  \* -- one call of an exported function of services/geminiService.ts --
  caller,            \* the exported function running ("none": no call)
  retries, delay,    \* parameters of the current fetchWithRetry invocation
  calls,             \* history: times fn() was invoked in this call
  waited,            \* history: the delays waited in this call
  fetchState,        \* "idle", "calling" (fn pending), "waiting" (setTimeout
                     \* pending), "returned", "thrown"
  fetchValue,        \* what fetchWithRetry returned ("": nothing)
  fetchError,        \* what fetchWithRetry threw (NoError: nothing)
  callResult,        \* what the exported function settled with (Null: pending)
  \* -- one call of setupNextPart, await by await --
  setupStage,        \* "idle", "topic", "images", "done", "failed" (catch block)
  secretTopicRef,    \* secretTopicRef.current
  question,          \* the question placed in the Part 3 instructions
  examImages,        \* state cell examImages
  \* -- FreeSpeakingMode --
  messages,          \* state cell messages; `of` (history) is the submission an
                     \* entry was added for, feedback 0 stands for undefined and
                     \* n for the feedback of submission n
  isRecordingFree,   \* state cell isRecording of FreeSpeakingMode
  isProcessing, isAiSpeaking,
  submitted,         \* history: number of handleAudioSubmit calls so far
  reply,             \* per submission, generateFreeSpeakingReply: "none",
                     \* "pending", "done", "failed"
  analysis,          \* per submission, the analysis request: same values
  retriesLeft,       \* per submission, `retries` of its fetchWithRetry invocation
  retryWait,         \* per submission, the setTimeout of fetchWithRetry is pending
  staleReplies,      \* per submission, reply requests of earlier attempts still pending
  ttsPending,        \* playAiAudio calls awaiting synthesizeSpeech
  audioPlaying,      \* the <audio> element is playing a reply
  \* -- WritingMode --
  mode,              \* prop mode
  writingTopic,      \* state cell topic
  writingText,       \* state cell text
  isSubmitting,
  writingFeedback,   \* state cell feedback
  writingTimeLeft,   \* state cell timeLeft
  writingHasStarted, \* state cell hasStarted
  isLoadingTopic,
  topicRequests,     \* fetchTopic calls awaiting generateWritingTopic
  evalRequests,      \* handleSubmit calls awaiting processWritingInput
  autoSubmits,       \* history: handleSubmit calls made by the timer effect
  pressedStart,      \* history: "Start Writing Now" was pressed in this attempt
  shortExpired       \* history: at an expiry handleSubmit found too short a text

\* the cells of ExamMode
examVars == <<initialPart, isStandalone, hasStarted, part, status, aiMessage, currentFeedback,
              resultsHistory, timeLeft, totalTime, isNewPartRef, autoAdvanceRef, turnCountRef,
              isRecording, mediaRecorderRef, audio, setupPending, synthPending, micPending,
              evalPending, expiryCount, totalScore>>
fetchVars == <<caller, retries, delay, calls, waited, fetchState, fetchValue, fetchError,
              callResult>>
setupVars == <<setupStage, secretTopicRef, question, examImages>>
freeVars == <<messages, isRecordingFree, isProcessing, isAiSpeaking, submitted, reply, analysis,
              retriesLeft, retryWait, staleReplies, ttsPending, audioPlaying>>

writingVars == <<mode, writingTopic, writingText, isSubmitting, writingFeedback, writingTimeLeft,
                 writingHasStarted, isLoadingTopic, topicRequests, evalRequests, autoSubmits,
                 pressedStart, shortExpired>>

vars == <<examVars, fetchVars, setupVars, freeVars, writingVars>>

\* the component state as one record, so that a handler is a function on it
Cur ==
  [initialPart |-> initialPart, isStandalone |-> isStandalone,
   hasStarted |-> hasStarted, part |-> part, status |-> status, aiMessage |-> aiMessage,
   currentFeedback |-> currentFeedback, resultsHistory |-> resultsHistory,
   timeLeft |-> timeLeft, totalTime |-> totalTime,
   isNewPartRef |-> isNewPartRef, autoAdvanceRef |-> autoAdvanceRef,
   turnCountRef |-> turnCountRef, isRecording |-> isRecording,
   mediaRecorderRef |-> mediaRecorderRef, audio |-> audio,
   setupPending |-> setupPending, synthPending |-> synthPending,
   micPending |-> micPending, evalPending |-> evalPending, expiryCount |-> expiryCount]

\* number of asynchronous operations outstanding in state s
InFlight(s) ==
  BagCardinality(s.setupPending) + BagCardinality(s.synthPending)
    + BagCardinality(s.micPending) + BagCardinality(s.evalPending)

\* the values of `part` and `status` a closure created in state s reads later;
\* of status only the test of handleAiFinishedSpeaking's first line is kept
Closure(s) ==
  [part |-> s.part, done |-> s.status \in {COMPLETED, PART_COMPLETED}]

\* which of the four returned trees the render of state s shows
View(s) ==
  IF ~s.hasStarted THEN "start"
  ELSE IF s.status = COMPLETED THEN "final"
  ELSE IF s.status = PART_COMPLETED /\ s.currentFeedback # Null THEN "summary"
  ELSE "main"

\* ---------------------------------------------------------------------------
\* handlers, as functions from state to state
\* ---------------------------------------------------------------------------

\* startRecording up to its await: a getUserMedia request with the closure env
startRecording(s, env) ==
  [s EXCEPT !.micPending = @ (+) SetToBag({env})]

\* mediaRecorder.stop(): the recorder fires onstop, which runs handleSubmission
\* up to its await; nextTurn is read from turnCountRef at that moment
recorderStop(s) ==
  [s EXCEPT !.evalPending = @ (+) SetToBag({[part |-> s.mediaRecorderRef.part,
                                             done |-> s.mediaRecorderRef.done,
                                             nextTurn |-> s.turnCountRef + 1]})]

stopRecording(s) ==
  IF s.mediaRecorderRef # Null /\ s.isRecording
  THEN [recorderStop(s) EXCEPT !.isRecording = FALSE, !.status = PROCESSING]
  ELSE s

\* playAiAudio up to its await
playAiAudio(s, env) ==
  [s EXCEPT !.status = AI_SPEAKING, !.synthPending = @ (+) SetToBag({env})]

\* playAudioUrl; mounted: the <audio> element exists (audioRef.current non-null)
playAudioUrl(s, env, mounted) ==
  [s EXCEPT !.status = AI_SPEAKING, !.audio = IF mounted THEN env ELSE @]

handleAiFinishedSpeaking(s, env) ==
  IF env.done THEN s
  ELSE IF env.part = INTRO
  THEN IF s.isNewPartRef
       THEN startRecording([s EXCEPT !.status = USER_SPEAKING, !.timeLeft = SpeakTime,
                                     !.totalTime = SpeakTime, !.isNewPartRef = FALSE,
                                     !.expiryCount = 0], env)
       ELSE startRecording([s EXCEPT !.status = USER_SPEAKING], env)
  ELSE IF env.part = PICTURE \/ env.part = DISCUSSION
  THEN IF s.isNewPartRef
       THEN [s EXCEPT !.status = USER_PREP, !.timeLeft = PrepTime, !.totalTime = PrepTime,
                      !.expiryCount = 0]
       ELSE startRecording([s EXCEPT !.status = USER_SPEAKING], env)
  ELSE [s EXCEPT !.status = IDLE]

handlePrepDone(s) ==
  startRecording([s EXCEPT !.status = USER_SPEAKING, !.timeLeft = SpeakTime,
                           !.totalTime = SpeakTime, !.isNewPartRef = FALSE,
                           !.expiryCount = 0], Closure(s))

handleSpeakingDone(s) == stopRecording(s)

\* variant of handleSubmissionResolved: shouldFinish without the turn limit
handleSubmissionResolved_NoCap(s, tok, moveNext, feedback) ==
  LET env == [part |-> tok.part, done |-> tok.done]
      s1 == [s EXCEPT !.turnCountRef = tok.nextTurn, !.currentFeedback = feedback]
      shouldFinish == moveNext \/ s.autoAdvanceRef
  IN IF shouldFinish
     THEN [s1 EXCEPT !.resultsHistory[tok.part] = feedback,
                     !.status = PART_COMPLETED,
                     !.autoAdvanceRef = FALSE]
     ELSE playAiAudio([s1 EXCEPT !.aiMessage = "reply"], env)

\* handleSubmission after processStudentInput resolved with {reply, feedback, moveNext}
handleSubmissionResolved(s, tok, moveNext, feedback) ==
  LET env == [part |-> tok.part, done |-> tok.done]
      s1 == [s EXCEPT !.turnCountRef = tok.nextTurn, !.currentFeedback = feedback]
      shouldFinish == moveNext \/ s.autoAdvanceRef \/ tok.nextTurn >= TurnLimit
  IN IF shouldFinish
     THEN [s1 EXCEPT !.resultsHistory[tok.part] = feedback,
                     !.status = PART_COMPLETED,
                     !.autoAdvanceRef = FALSE]
     ELSE playAiAudio([s1 EXCEPT !.aiMessage = "reply"], env)

\* variant of handleSubmissionRejected: the failed attempt is counted as a turn
handleSubmissionRejected_CountsTurn(s) ==
  [s EXCEPT !.aiMessage = "apology", !.status = IDLE, !.turnCountRef = @ + 1]

\* handleSubmission after processStudentInput rejected (catch block)
handleSubmissionRejected(s) ==
  [s EXCEPT !.aiMessage = "apology", !.status = IDLE]

\* variant of handleFinishWillingly: always the branch that commits no record
handleFinishWillingly_NoCommit(s) ==
  LET s1 == [s EXCEPT !.autoAdvanceRef = TRUE]
  IN IF s1.isRecording THEN stopRecording(s1)
     ELSE [s1 EXCEPT !.status = PART_COMPLETED]

handleFinishWillingly(s) ==
  IF s.currentFeedback # Null
  THEN [s EXCEPT !.resultsHistory[s.part] = s.currentFeedback, !.status = PART_COMPLETED]
  ELSE LET s1 == [s EXCEPT !.autoAdvanceRef = TRUE]
       IN IF s1.isRecording THEN stopRecording(s1)
          ELSE [s1 EXCEPT !.status = PART_COMPLETED]

\* variant of handleSkipPart: a record already received is kept instead of zeroed
handleSkipPart_KeepsFeedback(s) ==
  LET s1 == IF s.isRecording
            THEN [(IF s.mediaRecorderRef # Null THEN recorderStop(s) ELSE s)
                    EXCEPT !.isRecording = FALSE]
            ELSE s
      kept == IF s.currentFeedback # Null THEN s.currentFeedback ELSE skippedFeedback
  IN [s1 EXCEPT !.resultsHistory[s.part] = kept,
                !.currentFeedback = kept,
                !.status = PART_COMPLETED,
                !.audio = Null,
                !.aiMessage = "skipped"]

handleSkipPart(s) ==
  LET s1 == IF s.isRecording
            THEN [(IF s.mediaRecorderRef # Null THEN recorderStop(s) ELSE s)
                    EXCEPT !.isRecording = FALSE]
            ELSE s
  IN [s1 EXCEPT !.resultsHistory[s.part] = skippedFeedback,
                !.currentFeedback = skippedFeedback,
                !.status = PART_COMPLETED,
                !.audio = Null,
                !.aiMessage = "skipped"]

\* setupNextPart up to its first await; it is called from the effect of the
\* render that shows targetPart, whose closure the rest of the call keeps
setupNextPart(s, targetPart) ==
  [s EXCEPT !.status = PROCESSING, !.turnCountRef = 0,
            !.setupPending = @ (+) SetToBag({[Closure(s) EXCEPT !.part = targetPart]})]

\* setupNextPart after generateExamTopic (and the images) resolved
setupNextPartResolved(s, tok) ==
  playAiAudio([s EXCEPT !.aiMessage = "instructions"], tok)

\* effect on [hasStarted, part]; prefetched: introAudioUrlRef holds a URL
partEntryEffect(s, prefetched) ==
  IF s.hasStarted
  THEN IF s.part = INTRO /\ s.isNewPartRef
       THEN IF prefetched THEN playAudioUrl(s, Closure(s), View(s) = "main")
            ELSE playAiAudio(s, Closure(s))
       ELSE IF s.isNewPartRef THEN setupNextPart(s, s.part)
       ELSE s
  ELSE s

\* variant of advancePart: the last part is not recognised
advancePart_PastLast(s) ==
  IF s.isStandalone
  THEN [s EXCEPT !.status = COMPLETED]
  ELSE partEntryEffect([s EXCEPT !.status = PROCESSING, !.isNewPartRef = TRUE,
                                 !.currentFeedback = Null, !.part = @ + 1], FALSE)

\* variant of advancePart: isStandalone is not looked at
advancePart_IgnoresStandalone(s) ==
  IF s.part = DISCUSSION
  THEN [s EXCEPT !.status = COMPLETED]
  ELSE partEntryEffect([s EXCEPT !.status = PROCESSING, !.isNewPartRef = TRUE,
                                 !.currentFeedback = Null, !.part = @ + 1], FALSE)

advancePart(s) ==
  IF s.isStandalone \/ s.part = DISCUSSION
  THEN [s EXCEPT !.status = COMPLETED]
  ELSE partEntryEffect([s EXCEPT !.status = PROCESSING, !.isNewPartRef = TRUE,
                                 !.currentFeedback = Null, !.part = @ + 1], FALSE)

handleStartExam(s, prefetched) ==
  partEntryEffect([s EXCEPT !.hasStarted = TRUE], prefetched)

\* the updater passed to setTimeLeft by the interval
tick(prev) == IF prev <= 1 THEN 0 ELSE prev - 1

\* n firings of the interval in a row; it is re-armed only while timeLeft > 0
RECURSIVE ticks(_, _)
ticks(prev, n) == IF n = 0 \/ prev = 0 THEN prev ELSE ticks(tick(prev), n - 1)

\* variant of timerEffect: the preparation countdown has no expiry branch
timerEffect_NoPrepExpiry(s) ==
  LET shouldRunTimer == (s.status = USER_PREP \/ s.status = USER_SPEAKING) /\ s.timeLeft > 0
  IN IF ~shouldRunTimer /\ s.timeLeft = 0 /\ s.hasStarted
     THEN IF s.status = USER_SPEAKING /\ s.isRecording
          THEN [handleSpeakingDone(s) EXCEPT
                  !.expiryCount = IF @ < ExpiryCap THEN @ + 1 ELSE @]
          ELSE s
     ELSE s

\* effect on [status, timeLeft, hasStarted, isRecording], the branch taken
\* when the interval is not (re)armed
timerEffect(s) ==
  LET shouldRunTimer == (s.status = USER_PREP \/ s.status = USER_SPEAKING) /\ s.timeLeft > 0
  IN IF ~shouldRunTimer /\ s.timeLeft = 0 /\ s.hasStarted
     THEN IF s.status = USER_PREP THEN handlePrepDone(s)
          ELSE IF s.status = USER_SPEAKING /\ s.isRecording
               THEN [handleSpeakingDone(s) EXCEPT
                       !.expiryCount = IF @ < ExpiryCap THEN @ + 1 ELSE @]
          ELSE s
     ELSE s

\* the render after a handler: the <audio> element exists only in the main
\* tree (an element removed from the document is paused and never fires
\* `ended`), then the effects run
render(s) ==
  timerEffect(IF View(s) = "main" THEN s ELSE [s EXCEPT !.audio = Null])

\* the conditions under which the main tree renders each button
prepButtonShown(s) == View(s) = "main" /\ s.status = USER_PREP
startSpeakingShown(s) == View(s) = "main" /\ s.status = USER_SPEAKING /\ ~s.isRecording
submitAnswerShown(s) == View(s) = "main" /\ s.isRecording
\* variant of finishButtonShown: shown without regard to the turn counter
finishButtonShown_AnyTurn(s) ==
  View(s) = "main" /\ s.status = USER_SPEAKING /\ ~s.isRecording

finishButtonShown(s) ==
  View(s) = "main" /\ s.status = USER_SPEAKING /\ ~s.isRecording /\ s.turnCountRef > 0
skipButtonShown(s) ==
  View(s) = "main" /\ (s.status = USER_PREP \/ s.status = USER_SPEAKING)
continueButtonShown(s) == View(s) = "summary"

\* ---------------------------------------------------------------------------
\* services/geminiService.ts: the exported functions as functions of how the
\* fetchWithRetry call inside them settles
\* ---------------------------------------------------------------------------

\* default parameters of fetchWithRetry
DefaultRetries == 5
DefaultDelay == 2000

\* the exported functions of the speaking modes, which wrap their request in
\* fetchWithRetry
Callers == {"synthesizeSpeech", "generateExamTopic", "generateExamImage", "processStudentInput"}

\* what a request may reject with: the status property (0: none), the message,
\* and whether the message is an enumerable property (a plain object) or not
\* (an Error instance, of which JSON.stringify shows the own properties only)
ErrorObject(st, msg, plain) == [status |-> st, message |-> msg, plain |-> plain]

FetchErrors ==
  { ErrorObject(429, "RESOURCE_EXHAUSTED", FALSE),
    ErrorObject(0, "got status: 429 Too Many Requests", FALSE),
    ErrorObject(0, "Quota exceeded", TRUE),
    ErrorObject(0, "Quota exceeded", FALSE),
    ErrorObject(500, "Internal error", FALSE),
    ErrorObject(0, "Failed to fetch", FALSE) }

\* str.includes(marker) for the markers isQuotaError looks for; lower: after
\* toLowerCase()
includes(str, marker, lower) ==
  CASE marker = "429" -> str = "got status: 429 Too Many Requests"
    [] marker = "RESOURCE_EXHAUSTED" -> ~lower /\ str = "RESOURCE_EXHAUSTED"
    [] marker = "quota" -> lower /\ str = "Quota exceeded"

\* errorString.includes(marker), errorString being JSON.stringify(error)
stringified(error, marker, lower) ==
  \/ marker = "429" /\ error.status = 429
  \/ error.plain /\ includes(error.message, marker, lower)

isQuotaError(error) ==
  \/ includes(error.message, "429", FALSE)
  \/ error.status = 429
  \/ stringified(error, "429", FALSE)
  \/ stringified(error, "RESOURCE_EXHAUSTED", FALSE)
  \/ stringified(error, "quota", TRUE)

\* a settled promise
NoError == ErrorObject(0, "", FALSE)
Resolved(v) == [settled |-> "resolved", value |-> v, error |-> NoError]
Rejected(e) == [settled |-> "rejected", value |-> "", error |-> e]

\* what the model's response may hold, per exported function
FnResponses(c) ==
  CASE c = "synthesizeSpeech" -> {"inlineData", "no inlineData"}
    [] c = "generateExamTopic" -> {"Cats vs Dogs", "Is travel important?", ""}
    [] c = "generateExamImage" -> {"inlineData", "no inlineData"}
    [] c = "processStudentInput" -> {"json"}
    [] c = "generateWritingTopic" -> {"Write about a memorable day", ""}
    [] OTHER -> {}

\* what the function passed to fetchWithRetry returns for a response
fnValue(c, response) ==
  CASE c = "synthesizeSpeech" -> IF response = "inlineData" THEN "url" ELSE "null"
    [] c = "generateExamTopic" -> IF response = "" THEN "City vs Village" ELSE response
    [] c = "generateExamImage" -> IF response = "inlineData" THEN "image" ELSE "null"
    [] c = "processStudentInput" -> "evaluation"
    [] c = "generateWritingTopic" ->
         IF response = "" THEN "Write about your best friend..." ELSE response

\* the ways the fetchWithRetry call of exported function c may settle
Settlements(c) ==
  { Resolved(fnValue(c, r)) : r \in FnResponses(c) } \cup { Rejected(e) : e \in FetchErrors }

\* variant of synthesizeSpeech: without the try/catch around fetchWithRetry
synthesizeSpeech_Rethrows(st) == st

\* synthesizeSpeech: try { return await fetchWithRetry(...) }
\*                   catch { await speakWithBrowserFallback(text); return 'FALLBACK_HANDLED' }
synthesizeSpeech(st) ==
  IF st.settled = "rejected" THEN Resolved("FALLBACK_HANDLED") ELSE st

\* variant of generateExamTopic: without the trailing .catch
generateExamTopic_NoCatch(st) == st

\* generateExamTopic: fetchWithRetry(...).catch(() => "City vs Village")
generateExamTopic(st) ==
  IF st.settled = "rejected" THEN Resolved("City vs Village") ELSE st

\* generateExamImage: fetchWithRetry(...).catch(() => null)
generateExamImage(st) ==
  IF st.settled = "rejected" THEN Resolved("null") ELSE st

\* processStudentInput returns the promise of fetchWithRetry as it is
processStudentInput(st) == st

\* the exported function c applied to the settlement of its fetchWithRetry
exported(c, st) ==
  CASE c = "synthesizeSpeech" -> synthesizeSpeech(st)
    [] c = "generateExamTopic" -> generateExamTopic(st)
    [] c = "generateExamImage" -> generateExamImage(st)
    [] c = "processStudentInput" -> processStudentInput(st)

\* ---------------------------------------------------------------------------
\* the state machine
\* ---------------------------------------------------------------------------

WithinBounds(r) ==
  /\ InFlight(r) <= MaxInFlight
  /\ r.turnCountRef <= TurnBound
  /\ \A t \in BagToSet(r.evalPending) : t.nextTurn <= TurnBound

\* the next state of the ExamMode cells is the record r
CommitExam(r) ==
  /\ WithinBounds(r)
  /\ initialPart' = r.initialPart
  /\ isStandalone' = r.isStandalone
  /\ hasStarted' = r.hasStarted
  /\ part' = r.part
  /\ status' = r.status
  /\ aiMessage' = r.aiMessage
  /\ currentFeedback' = r.currentFeedback
  /\ resultsHistory' = r.resultsHistory
  /\ timeLeft' = r.timeLeft
  /\ totalTime' = r.totalTime
  /\ isNewPartRef' = r.isNewPartRef
  /\ autoAdvanceRef' = r.autoAdvanceRef
  /\ turnCountRef' = r.turnCountRef
  /\ isRecording' = r.isRecording
  /\ mediaRecorderRef' = r.mediaRecorderRef
  /\ audio' = r.audio
  /\ setupPending' = r.setupPending
  /\ synthPending' = r.synthPending
  /\ micPending' = r.micPending
  /\ evalPending' = r.evalPending
  /\ expiryCount' = r.expiryCount
  /\ totalScore' = IF View(r) = "final"
                   THEN calculateTotalScore(r.resultsHistory,
                                            {p \in ExamPart : r.resultsHistory[p] # Null})
                   ELSE Null

\* a step of the exam controller, in which the service calls and the setup
\* of a part are the pending operations of the bags, not followed in detail
Commit(r) ==
  /\ CommitExam(r)
  /\ UNCHANGED <<fetchVars, setupVars, freeVars, writingVars>>

\* no service call is followed in detail
FetchIdle ==
  /\ caller = "none"
  /\ retries = 0
  /\ delay = 0
  /\ calls = 0
  /\ waited = << >>
  /\ fetchState = "idle"
  /\ fetchValue = ""
  /\ fetchError = NoError
  /\ callResult = Null

\* no call of setupNextPart is followed in detail
SetupIdle ==
  /\ setupStage = "idle"
  /\ secretTopicRef = ""
  /\ question = ""
  /\ examImages = << >>

\* FreeSpeakingMode is not mounted
FreeIdle ==
  /\ messages = << >>
  /\ isRecordingFree = FALSE
  /\ isProcessing = FALSE
  /\ isAiSpeaking = FALSE
  /\ submitted = 0
  /\ reply = [n \in 1..MaxSubmissions |-> "none"]
  /\ analysis = [n \in 1..MaxSubmissions |-> "none"]
  /\ retriesLeft = [n \in 1..MaxSubmissions |-> 0]
  /\ retryWait = [n \in 1..MaxSubmissions |-> FALSE]
  /\ staleReplies = [n \in 1..MaxSubmissions |-> 0]
  /\ ttsPending = 0
  /\ audioPlaying = FALSE

\* a text of the textarea: `lead` white-space characters around `body`
\* characters that begin and end with a visible one
Text(lead, body) == [lead |-> lead, body |-> body]

\* WritingMode is not mounted
WritingIdle ==
  /\ mode = "none"
  /\ writingTopic = ""
  /\ writingText = Text(0, 0)
  /\ isSubmitting = FALSE
  /\ writingFeedback = Null
  /\ writingTimeLeft = 0
  /\ writingHasStarted = FALSE
  /\ isLoadingTopic = FALSE
  /\ topicRequests = 0
  /\ evalRequests = 0
  /\ autoSubmits = 0
  /\ pressedStart = FALSE
  /\ shortExpired = FALSE

\* the component as mounted by App: the full exam, or one part standalone
Init ==
  /\ \E m \in { <<INTRO, FALSE>>, <<INTRO, TRUE>>, <<PICTURE, TRUE>>, <<DISCUSSION, TRUE>> } :
        /\ initialPart = m[1]
        /\ isStandalone = m[2]
        /\ part = m[1]
  /\ hasStarted = FALSE
  /\ status = IDLE
  /\ aiMessage = "welcome"
  /\ currentFeedback = Null
  /\ resultsHistory = [p \in ExamPart |-> Null]
  /\ timeLeft = 0
  /\ totalTime = 0
  /\ isNewPartRef = TRUE
  /\ autoAdvanceRef = FALSE
  /\ turnCountRef = 0
  /\ isRecording = FALSE
  /\ mediaRecorderRef = Null
  /\ audio = Null
  /\ setupPending = EmptyBag
  /\ synthPending = EmptyBag
  /\ micPending = EmptyBag
  /\ evalPending = EmptyBag
  /\ expiryCount = 0
  /\ totalScore = Null
  /\ FetchIdle
  /\ SetupIdle
  /\ FreeIdle
  /\ WritingIdle

\* "Start Exam Session" button
ClickStartExam ==
  /\ View(Cur) = "start"
  /\ \E prefetched \in BOOLEAN :
        /\ prefetched => initialPart = INTRO
        /\ Commit(render(handleStartExam(Cur, prefetched)))

\* generateExamTopic / generateExamImage resolved inside setupNextPart
SetupResolves(tok) ==
  /\ BagIn(tok, setupPending)
  /\ Commit(render(setupNextPartResolved(
        [Cur EXCEPT !.setupPending = @ (-) SetToBag({tok})], tok)))

\* synthesizeSpeech resolved inside playAiAudio; with null the handler runs
\* from the 2 s timeout, during which this component does nothing else
SynthResolves(tok, result) ==
  /\ BagIn(tok, synthPending)
  /\ LET s == [Cur EXCEPT !.synthPending = @ (-) SetToBag({tok})]
     IN Commit(render(
          IF result.settled = "rejected" THEN [s EXCEPT !.status = IDLE]
          ELSE IF result.value = "FALLBACK_HANDLED" THEN handleAiFinishedSpeaking(s, tok)
          ELSE IF result.value = "url" THEN playAudioUrl(s, tok, View(Cur) = "main")
          ELSE handleAiFinishedSpeaking(s, tok)))

\* the <audio> element fires `ended`
AudioEnded ==
  /\ audio # Null
  /\ Commit(render(handleAiFinishedSpeaking([Cur EXCEPT !.audio = Null], audio)))

\* getUserMedia resolved inside startRecording: a new recorder replaces the one
\* in mediaRecorderRef and starts
MicGranted(tok) ==
  /\ BagIn(tok, micPending)
  /\ Commit(render([Cur EXCEPT !.micPending = @ (-) SetToBag({tok}),
                               !.mediaRecorderRef = tok,
                               !.isRecording = TRUE]))

\* variant of MicDenied: the recorder is created and started all the same
MicDenied_StartsRecorder(tok) ==
  /\ BagIn(tok, micPending)
  /\ Commit(render([Cur EXCEPT !.micPending = @ (-) SetToBag({tok}),
                               !.mediaRecorderRef = tok,
                               !.isRecording = TRUE]))

\* getUserMedia rejected: the catch block only alerts
MicDenied(tok) ==
  /\ BagIn(tok, micPending)
  /\ Commit(render([Cur EXCEPT !.micPending = @ (-) SetToBag({tok})]))

\* variant of TimerTick: the interval is armed whatever the status
TimerTick_AnyStatus ==
  /\ hasStarted /\ timeLeft > 0
  /\ Commit(render([Cur EXCEPT !.timeLeft = ticks(@, TickStride)]))

\* the 1 s interval fires (TickStride times in a row)
TimerTick ==
  /\ (status = USER_PREP \/ status = USER_SPEAKING) /\ timeLeft > 0
  /\ Commit(render([Cur EXCEPT !.timeLeft = ticks(@, TickStride)]))

\* "Start Speaking Now" button
ClickPrepDone ==
  /\ prepButtonShown(Cur)
  /\ Commit(render(handlePrepDone(Cur)))

\* "Start Speaking" button
ClickStartSpeaking ==
  /\ startSpeakingShown(Cur)
  /\ Commit(render(startRecording(Cur, Closure(Cur))))

\* "Submit Answer" button
ClickSubmitAnswer ==
  /\ submitAnswerShown(Cur)
  /\ Commit(render(stopRecording(Cur)))

\* "Finish and Grade Part" button
ClickFinishWillingly ==
  /\ finishButtonShown(Cur)
  /\ Commit(render(handleFinishWillingly(Cur)))

\* "Skip this Part" button
ClickSkipPart ==
  /\ skipButtonShown(Cur)
  /\ Commit(render(handleSkipPart(Cur)))

\* "Continue to Part n" / "View Final Scoreboard" button
ClickContinue ==
  /\ continueButtonShown(Cur)
  /\ Commit(render(advancePart(Cur)))

\* processStudentInput resolved inside handleSubmission
EvalSucceeds(tok, moveNext, feedback) ==
  /\ BagIn(tok, evalPending)
  /\ Commit(render(handleSubmissionResolved(
        [Cur EXCEPT !.evalPending = @ (-) SetToBag({tok})], tok, moveNext, feedback)))

\* processStudentInput rejected inside handleSubmission
EvalFails(tok) ==
  /\ BagIn(tok, evalPending)
  /\ Commit(render(handleSubmissionRejected(
        [Cur EXCEPT !.evalPending = @ (-) SetToBag({tok})])))

Next ==
  \/ ClickStartExam
  \/ \E tok \in BagToSet(setupPending) : SetupResolves(tok)
  \/ \E tok \in BagToSet(synthPending), st \in Settlements("synthesizeSpeech") :
        SynthResolves(tok, synthesizeSpeech(st))
  \/ AudioEnded
  \/ \E tok \in BagToSet(micPending) : MicGranted(tok)
  \/ \E tok \in BagToSet(micPending) : MicDenied(tok)
  \/ TimerTick
  \/ ClickPrepDone
  \/ ClickStartSpeaking
  \/ ClickSubmitAnswer
  \/ ClickFinishWillingly
  \/ ClickSkipPart
  \/ ClickContinue
  \/ \E tok \in BagToSet(evalPending), moveNext \in BOOLEAN, feedback \in ServiceFeedbacks :
        EvalSucceeds(tok, moveNext, feedback)
  \/ \E tok \in BagToSet(evalPending) : EvalFails(tok)

Spec == Init /\ [][Next]_vars

TypeOK ==
  /\ part \in ExamPart
  /\ status \in ExamStatus
  /\ timeLeft \in 0..SpeakTime
  /\ turnCountRef \in 0..TurnBound
  /\ InFlight(Cur) <= MaxInFlight

\* a playback of the AI prompt completes: the <audio> element ends, or the
\* speech adapter reports its fallback (or no audio) to playAiAudio
PlaybackCompletes ==
  \/ AudioEnded
  \/ \E tok \in BagToSet(synthPending),
          result \in {Resolved("FALLBACK_HANDLED"), Resolved("null")} :
        SynthResolves(tok, result)

\* ---------------------------------------------------------------------------
\* the service layer followed in detail: one call of an exported function of
\* geminiService.ts through fetchWithRetry, and setupNextPart through its awaits
\* ---------------------------------------------------------------------------

\* an exported function is called: fetchWithRetry(fn) with its default parameters
\* runs fn for the first time
CallAdapter(c) ==
  /\ fetchState \in {"idle", "returned", "thrown"}
  /\ caller' = c
  /\ retries' = DefaultRetries
  /\ delay' = DefaultDelay
  /\ calls' = 1
  /\ waited' = << >>
  /\ fetchState' = "calling"
  /\ fetchValue' = ""
  /\ fetchError' = NoError
  /\ callResult' = Null
  /\ UNCHANGED <<examVars, setupVars, freeVars, writingVars>>

\* `return await fn()`: fn resolved
FnResolves(response) ==
  /\ fetchState = "calling"
  /\ response \in FnResponses(caller)
  /\ fetchState' = "returned"
  /\ fetchValue' = fnValue(caller, response)
  /\ callResult' = exported(caller, Resolved(fnValue(caller, response)))
  /\ UNCHANGED <<caller, retries, delay, calls, waited, fetchError, examVars, setupVars, freeVars, writingVars>>

\* variant of FnRejects: every error is retried while retries are left
FnRejects_RetriesAll(error) ==
  /\ fetchState = "calling"
  /\ IF retries > 0
     THEN /\ fetchState' = "waiting"
          /\ UNCHANGED <<fetchError, callResult>>
     ELSE /\ fetchState' = "thrown"
          /\ fetchError' = error
          /\ callResult' = exported(caller, Rejected(error))
  /\ UNCHANGED <<caller, retries, delay, calls, waited, fetchValue, examVars, setupVars, freeVars, writingVars>>

\* the catch block of fetchWithRetry: fn rejected with error
FnRejects(error) ==
  /\ fetchState = "calling"
  /\ IF retries > 0 /\ isQuotaError(error)
     THEN /\ fetchState' = "waiting"
          /\ UNCHANGED <<fetchError, callResult>>
     ELSE /\ fetchState' = "thrown"
          /\ fetchError' = error
          /\ callResult' = exported(caller, Rejected(error))
  /\ UNCHANGED <<caller, retries, delay, calls, waited, fetchValue, examVars, setupVars, freeVars, writingVars>>

\* variant of DelayElapses: the recursive call passes the same delay
DelayElapses_SameDelay ==
  /\ fetchState = "waiting"
  /\ waited' = Append(waited, delay)
  /\ retries' = retries - 1
  /\ delay' = delay
  /\ calls' = calls + 1
  /\ fetchState' = "calling"
  /\ UNCHANGED <<caller, fetchValue, fetchError, callResult, examVars, setupVars, freeVars, writingVars>>

\* the setTimeout(resolve, delay) fires: fetchWithRetry(fn, retries - 1, delay * 2)
DelayElapses ==
  /\ fetchState = "waiting"
  /\ waited' = Append(waited, delay)
  /\ retries' = retries - 1
  /\ delay' = delay * 2
  /\ calls' = calls + 1
  /\ fetchState' = "calling"
  /\ UNCHANGED <<caller, fetchValue, fetchError, callResult, examVars, setupVars, freeVars, writingVars>>

\* the request of the running call settles
FnSettles ==
  \/ \E response \in FnResponses(caller) : FnResolves(response)
  \/ \E error \in FetchErrors : FnRejects(error)

\* the images pushed to validImages
validImages(imgA, imgB) ==
  (IF imgA # "null" THEN <<"imgA">> ELSE << >>) \o (IF imgB # "null" THEN <<"imgB">> ELSE << >>)

\* setupNextPart resumes after `await generateExamTopic(...)`; st is how the
\* fetchWithRetry call inside generateExamTopic settled
TopicSettles(st) ==
  /\ setupStage = "topic"
  /\ LET topic == generateExamTopic(st)
     IN IF topic.settled = "rejected"
        THEN /\ setupStage' = "failed"
             /\ UNCHANGED <<examVars, secretTopicRef, question, examImages>>
        ELSE IF part = PICTURE
        THEN /\ secretTopicRef' = topic.value
             /\ CommitExam(render([Cur EXCEPT !.aiMessage = "instructions"]))
             /\ setupStage' = "images"
             /\ UNCHANGED <<question, examImages>>
        ELSE /\ question' = topic.value
             /\ CommitExam(render(setupNextPartResolved(Cur, Closure(Cur))))
             /\ setupStage' = "done"
             /\ UNCHANGED <<secretTopicRef, examImages>>
  /\ UNCHANGED <<fetchVars, freeVars, writingVars>>

\* setupNextPart resumes after `await Promise.all([generateExamImage, generateExamImage])`
ImagesSettle(stA, stB) ==
  /\ setupStage = "images"
  /\ LET imgA == generateExamImage(stA)
         imgB == generateExamImage(stB)
     IN IF imgA.settled = "rejected" \/ imgB.settled = "rejected"
        THEN /\ setupStage' = "failed"
             /\ UNCHANGED <<examVars, examImages>>
        ELSE /\ examImages' = validImages(imgA.value, imgB.value)
             /\ CommitExam(render(setupNextPartResolved(Cur, Closure(Cur))))
             /\ setupStage' = "done"
  /\ UNCHANGED <<fetchVars, freeVars, writingVars, secretTopicRef, question>>

TopicSettlesAny == \E st \in Settlements("generateExamTopic") : TopicSettles(st)

ImagesSettleAny == \E stA, stB \in Settlements("generateExamImage") : ImagesSettle(stA, stB)

\* a standalone PICTURE or DISCUSSION part right after "Start Exam Session":
\* setupNextPart ran up to its first await
InitAdapters ==
  /\ \E p \in {PICTURE, DISCUSSION} :
        /\ initialPart = p
        /\ part = p
  /\ isStandalone = TRUE
  /\ hasStarted = TRUE
  /\ status = PROCESSING
  /\ aiMessage = "welcome"
  /\ currentFeedback = Null
  /\ resultsHistory = [p \in ExamPart |-> Null]
  /\ timeLeft = 0
  /\ totalTime = 0
  /\ isNewPartRef = TRUE
  /\ autoAdvanceRef = FALSE
  /\ turnCountRef = 0
  /\ isRecording = FALSE
  /\ mediaRecorderRef = Null
  /\ audio = Null
  /\ setupPending = EmptyBag
  /\ synthPending = EmptyBag
  /\ micPending = EmptyBag
  /\ evalPending = EmptyBag
  /\ expiryCount = 0
  /\ totalScore = Null
  /\ FetchIdle
  /\ FreeIdle
  /\ WritingIdle
  /\ setupStage = "topic"
  /\ secretTopicRef = ""
  /\ question = ""
  /\ examImages = << >>

NextAdapters ==
  \/ \E c \in Callers : CallAdapter(c)
  \/ \E response \in FnResponses(caller) : FnResolves(response)
  \/ \E error \in FetchErrors : FnRejects(error)
  \/ DelayElapses
  \/ \E st \in Settlements("generateExamTopic") : TopicSettles(st)
  \/ \E stA, stB \in Settlements("generateExamImage") : ImagesSettle(stA, stB)

\* every request sent settles, every timer set fires, every await resumes
SpecAdapters ==
  /\ InitAdapters
  /\ [][NextAdapters]_vars
  /\ WF_vars(FnSettles)
  /\ WF_vars(DelayElapses)
  /\ WF_vars(TopicSettlesAny)
  /\ WF_vars(ImagesSettleAny)

\* ---------------------------------------------------------------------------
\* the last evaluation of a session and the results view, with the scores
\* processStudentInput builds from what the model returned
\* ---------------------------------------------------------------------------

\* processStudentInput resolved inside handleSubmission; json is the parsed reply
EvalScored(tok, moveNext, json) ==
  /\ BagIn(tok, evalPending)
  /\ Commit(render(handleSubmissionResolved(
        [Cur EXCEPT !.evalPending = @ (-) SetToBag({tok})], tok, moveNext, feedbackOf(json))))

\* the first answer of the session's last part has been submitted: a standalone
\* part, or DISCUSSION of the full exam with INTRO and PICTURE skipped or evaluated
InitScore ==
  /\ \E m \in { <<INTRO, TRUE>>, <<PICTURE, TRUE>>, <<DISCUSSION, TRUE>>, <<DISCUSSION, FALSE>> } :
        /\ part = m[1]
        /\ isStandalone = m[2]
        /\ initialPart = IF m[2] THEN m[1] ELSE INTRO
        /\ aiMessage = IF m[1] = INTRO THEN "welcome" ELSE "instructions"
        /\ mediaRecorderRef = [part |-> m[1], done |-> FALSE]
        /\ evalPending = SetToBag({[part |-> m[1], done |-> FALSE, nextTurn |-> 1]})
        /\ IF m[2]
           THEN resultsHistory = [p \in ExamPart |-> Null]
           ELSE \E r1 \in {skippedFeedback, Feedback(4, 4, 4, 4, "evaluated")},
                   r2 \in {skippedFeedback, Feedback(8, 7, 9, 8, "evaluated")} :
                  resultsHistory = [p \in ExamPart |->
                                      IF p = INTRO THEN r1 ELSE IF p = PICTURE THEN r2 ELSE Null]
  /\ hasStarted = TRUE
  /\ status = PROCESSING
  /\ currentFeedback = Null
  /\ timeLeft = SpeakTime
  /\ totalTime = SpeakTime
  /\ isNewPartRef = FALSE
  /\ autoAdvanceRef = FALSE
  /\ turnCountRef = 0
  /\ isRecording = FALSE
  /\ audio = Null
  /\ setupPending = EmptyBag
  /\ synthPending = EmptyBag
  /\ micPending = EmptyBag
  /\ expiryCount = 0
  /\ totalScore = Null
  /\ FetchIdle
  /\ SetupIdle
  /\ FreeIdle
  /\ WritingIdle

NextScore ==
  \/ \E tok \in BagToSet(evalPending), moveNext \in BOOLEAN, json \in RawJsons :
        EvalScored(tok, moveNext, json)
  \/ ClickContinue

SpecScore == InitScore /\ [][NextScore]_vars

\* ---------------------------------------------------------------------------
\* FreeSpeakingMode: the transcript, the record button and the two parallel
\* requests of processStudentInput in FREE mode, run under fetchWithRetry
\* ---------------------------------------------------------------------------

ChatMessage(role, text, n) == [role |-> role, text |-> text, of |-> n, feedback |-> 0]

\* the updater handleAudioSubmit passes to setMessages once the result of
\* submission n is there: the last entry gets the feedback if its role is 'ai'
patchLast(prev, n) ==
  IF Len(prev) >= 1 /\ prev[Len(prev)].role = "ai"
  THEN [prev EXCEPT ![Len(prev)].feedback = n]
  ELSE prev

\* the record button is rendered with disabled={isProcessing && !isAiSpeaking}
recordButtonEnabled == ~(isProcessing /\ ~isAiSpeaking)

\* synthesizeSpeech resolved inside playAiAudio of FreeSpeakingMode
TtsResolves(result) ==
  /\ ttsPending > 0
  /\ ttsPending' = ttsPending - 1
  /\ IF result.settled = "rejected"
     THEN isAiSpeaking' = FALSE /\ UNCHANGED audioPlaying
     ELSE IF result.value = "FALLBACK_HANDLED"
     THEN isAiSpeaking' = FALSE /\ UNCHANGED audioPlaying
     ELSE IF result.value = "url"
     THEN isAiSpeaking' = TRUE /\ audioPlaying' = TRUE
     ELSE UNCHANGED <<isAiSpeaking, audioPlaying>>
  /\ UNCHANGED <<messages, isRecordingFree, isProcessing, submitted, reply, analysis>>
  /\ UNCHANGED <<retriesLeft, retryWait, staleReplies>>
  /\ UNCHANGED <<examVars, fetchVars, setupVars, writingVars>>

\* audioRef.current.onended
FreeAudioEnded ==
  /\ audioPlaying
  /\ audioPlaying' = FALSE
  /\ isAiSpeaking' = FALSE
  /\ UNCHANGED <<messages, isRecordingFree, isProcessing, submitted, reply, analysis, ttsPending>>
  /\ UNCHANGED <<retriesLeft, retryWait, staleReplies>>
  /\ UNCHANGED <<examVars, fetchVars, setupVars, writingVars>>

\* the record button while not recording: startRecording, the microphone granted
ClickRecordStart ==
  /\ recordButtonEnabled
  /\ ~isRecordingFree
  /\ isRecordingFree' = TRUE
  /\ UNCHANGED <<messages, isProcessing, isAiSpeaking, submitted, reply, analysis, ttsPending,
                 audioPlaying>>
  /\ UNCHANGED <<retriesLeft, retryWait, staleReplies>>
  /\ UNCHANGED <<examVars, fetchVars, setupVars, writingVars>>

\* the record button while recording: stopRecording, and the recorder's onstop
\* runs handleAudioSubmit up to `await processStudentInput`, which has started
\* the reply request and the analysis request
ClickRecordStop ==
  /\ recordButtonEnabled
  /\ isRecordingFree
  /\ submitted < MaxSubmissions
  /\ isRecordingFree' = FALSE
  /\ submitted' = submitted + 1
  /\ isProcessing' = TRUE
  /\ messages' = Append(messages, ChatMessage("user", "(Audio Input)", submitted + 1))
  /\ reply' = [reply EXCEPT ![submitted + 1] = "pending"]
  /\ analysis' = [analysis EXCEPT ![submitted + 1] = "pending"]
  /\ retriesLeft' = [retriesLeft EXCEPT ![submitted + 1] = RetryBound]
  /\ UNCHANGED <<isAiSpeaking, ttsPending, audioPlaying>>
  /\ UNCHANGED <<retryWait, staleReplies>>
  /\ UNCHANGED <<examVars, fetchVars, setupVars, writingVars>>

\* generateFreeSpeakingReply of submission n resolved: onReply adds the reply
\* and plays it; if the analysis is already there Promise.all resolves and
\* handleAudioSubmit continues in the same task
ReplyCompletes(n) ==
  /\ reply[n] = "pending"
  /\ reply' = [reply EXCEPT ![n] = "done"]
  /\ ttsPending' = ttsPending + 1
  /\ LET added == Append(messages, ChatMessage("ai", "reply", n))
     IN IF analysis[n] = "done"
        THEN messages' = patchLast(added, n) /\ isProcessing' = FALSE
        ELSE messages' = added /\ UNCHANGED isProcessing
  /\ UNCHANGED <<isRecordingFree, isAiSpeaking, submitted, analysis, audioPlaying>>
  /\ UNCHANGED <<retriesLeft, retryWait, staleReplies>>
  /\ UNCHANGED <<examVars, fetchVars, setupVars, writingVars>>

\* the analysis request of submission n resolved
AnalysisCompletes(n) ==
  /\ analysis[n] = "pending"
  /\ analysis' = [analysis EXCEPT ![n] = "done"]
  /\ IF reply[n] = "done"
     THEN messages' = patchLast(messages, n) /\ isProcessing' = FALSE
     ELSE UNCHANGED <<messages, isProcessing>>
  /\ UNCHANGED <<isRecordingFree, isAiSpeaking, submitted, reply, ttsPending, audioPlaying>>
  /\ UNCHANGED <<retriesLeft, retryWait, staleReplies>>
  /\ UNCHANGED <<examVars, fetchVars, setupVars, writingVars>>

\* a request of submission n rejected with error: unless the other one had
\* rejected before, Promise.all rejects and fetchWithRetry either sets its
\* timer for a retry or throws; then the catch block of handleAudioSubmit adds
\* the apology and `finally` clears isProcessing
RequestFails(n, which, error) ==
  /\ IF which = "reply"
     THEN /\ reply[n] = "pending"
          /\ reply' = [reply EXCEPT ![n] = "failed"]
          /\ UNCHANGED analysis
     ELSE /\ analysis[n] = "pending"
          /\ analysis' = [analysis EXCEPT ![n] = "failed"]
          /\ UNCHANGED reply
  /\ IF (IF which = "reply" THEN analysis[n] ELSE reply[n]) = "failed"
     THEN UNCHANGED <<messages, ttsPending, isProcessing, retryWait>>
     ELSE IF retriesLeft[n] > 0 /\ isQuotaError(error)
     THEN /\ retryWait' = [retryWait EXCEPT ![n] = TRUE]
          /\ UNCHANGED <<messages, ttsPending, isProcessing>>
     ELSE /\ messages' = Append(messages, ChatMessage("ai", "Sorry", n))
          /\ ttsPending' = ttsPending + 1
          /\ isProcessing' = FALSE
          /\ UNCHANGED retryWait
  /\ UNCHANGED <<isRecordingFree, isAiSpeaking, submitted, audioPlaying>>
  /\ UNCHANGED <<retriesLeft, staleReplies>>
  /\ UNCHANGED <<examVars, fetchVars, setupVars, writingVars>>

\* the timer of fetchWithRetry fires for submission n: fn runs again and sends
\* a new reply request and a new analysis request; a reply request of the
\* attempt before that is still pending keeps its .then(onReply)
RetryFires(n) ==
  /\ retryWait[n]
  /\ retryWait' = [retryWait EXCEPT ![n] = FALSE]
  /\ retriesLeft' = [retriesLeft EXCEPT ![n] = @ - 1]
  /\ staleReplies' = [staleReplies EXCEPT ![n] = IF reply[n] = "pending" THEN @ + 1 ELSE @]
  /\ reply' = [reply EXCEPT ![n] = "pending"]
  /\ analysis' = [analysis EXCEPT ![n] = "pending"]
  /\ UNCHANGED <<messages, isRecordingFree, isProcessing, isAiSpeaking, submitted, ttsPending,
                 audioPlaying>>
  /\ UNCHANGED <<examVars, fetchVars, setupVars, writingVars>>

\* a reply request of an earlier attempt of submission n settles: resolved, its
\* .then calls onReply, which adds the reply and plays it
StaleReplySettles(n, resolved) ==
  /\ staleReplies[n] > 0
  /\ staleReplies' = [staleReplies EXCEPT ![n] = @ - 1]
  /\ IF resolved
     THEN /\ messages' = Append(messages, ChatMessage("ai", "reply", n))
          /\ ttsPending' = ttsPending + 1
     ELSE UNCHANGED <<messages, ttsPending>>
  /\ UNCHANGED <<isRecordingFree, isProcessing, isAiSpeaking, submitted, reply, analysis,
                 retriesLeft, retryWait, audioPlaying>>
  /\ UNCHANGED <<examVars, fetchVars, setupVars, writingVars>>

\* FreeSpeakingMode after its mount effect: the greeting is in the transcript
\* and its playAiAudio awaits synthesizeSpeech; ExamMode is not started
InitFree ==
  /\ messages = << ChatMessage("ai", "Hello", 0) >>
  /\ isRecordingFree = FALSE
  /\ isProcessing = FALSE
  /\ isAiSpeaking = FALSE
  /\ submitted = 0
  /\ reply = [n \in 1..MaxSubmissions |-> "none"]
  /\ analysis = [n \in 1..MaxSubmissions |-> "none"]
  /\ retriesLeft = [n \in 1..MaxSubmissions |-> 0]
  /\ retryWait = [n \in 1..MaxSubmissions |-> FALSE]
  /\ staleReplies = [n \in 1..MaxSubmissions |-> 0]
  /\ ttsPending = 1
  /\ audioPlaying = FALSE
  /\ initialPart = INTRO
  /\ isStandalone = FALSE
  /\ part = INTRO
  /\ hasStarted = FALSE
  /\ status = IDLE
  /\ aiMessage = "welcome"
  /\ currentFeedback = Null
  /\ resultsHistory = [p \in ExamPart |-> Null]
  /\ timeLeft = 0
  /\ totalTime = 0
  /\ isNewPartRef = TRUE
  /\ autoAdvanceRef = FALSE
  /\ turnCountRef = 0
  /\ isRecording = FALSE
  /\ mediaRecorderRef = Null
  /\ audio = Null
  /\ setupPending = EmptyBag
  /\ synthPending = EmptyBag
  /\ micPending = EmptyBag
  /\ evalPending = EmptyBag
  /\ expiryCount = 0
  /\ totalScore = Null
  /\ FetchIdle
  /\ SetupIdle
  /\ WritingIdle

NextFree ==
  \/ \E st \in Settlements("synthesizeSpeech") : TtsResolves(synthesizeSpeech(st))
  \/ FreeAudioEnded
  \/ ClickRecordStart
  \/ ClickRecordStop
  \/ \E n \in 1..MaxSubmissions : ReplyCompletes(n)
  \/ \E n \in 1..MaxSubmissions : AnalysisCompletes(n)
  \/ \E n \in 1..MaxSubmissions, which \in {"reply", "analysis"}, error \in FetchErrors :
        RequestFails(n, which, error)
  \/ \E n \in 1..MaxSubmissions : RetryFires(n)
  \/ \E n \in 1..MaxSubmissions, resolved \in BOOLEAN : StaleReplySettles(n, resolved)

SpecFree == InitFree /\ [][NextFree]_vars

\* ---------------------------------------------------------------------------
\* WritingMode: one mounted instance, which App keeps across the two writing
\* modes; a handler, the render and the effects that follow are one step
\* ---------------------------------------------------------------------------

\* initial value of timeLeft, and the least trimmed length handleSubmit accepts
WritingTime == 1200
MinChars == 20

\* texts the textarea may hold
Texts == { Text(0, 0), Text(30, 5), Text(0, 19), Text(0, 20) }

\* text.trim().length
trimmedLength(text) == text.body

\* what processWritingInput resolves with
WritingFeedbackData == [overallFeedback |-> "evaluated"]

\* the cells of WritingMode as one record
WCur ==
  [mode |-> mode, topic |-> writingTopic, text |-> writingText, isSubmitting |-> isSubmitting,
   feedback |-> writingFeedback, timeLeft |-> writingTimeLeft, hasStarted |-> writingHasStarted,
   isLoadingTopic |-> isLoadingTopic, topicRequests |-> topicRequests,
   evalRequests |-> evalRequests, autoSubmits |-> autoSubmits, pressedStart |-> pressedStart,
   shortExpired |-> shortExpired]

isExam(w) == w.mode = "WRITING_EXAM"

\* generateWritingTopic: fetchWithRetry(...).catch(() => "Write about your best friend...")
generateWritingTopic(st) ==
  IF st.settled = "rejected" THEN Resolved("Write about your best friend...") ELSE st

\* fetchTopic up to its await
fetchTopic(w) == [w EXCEPT !.isLoadingTopic = TRUE, !.topicRequests = @ + 1]

\* handleSubmit up to its await
handleSubmit(w) ==
  IF trimmedLength(w.text) < MinChars
  THEN w
  ELSE [w EXCEPT !.isSubmitting = TRUE, !.evalRequests = @ + 1]

\* the effect on [mode], run after a render in which mode has changed
modeEffect(w) ==
  LET w1 == IF isExam(w) THEN fetchTopic(w)
            ELSE [w EXCEPT !.topic = "", !.hasStarted = TRUE]
  IN [w1 EXCEPT !.text = Text(0, 0), !.feedback = Null]

\* the dependencies of the timer effect
timerDeps(w) == <<w.hasStarted, w.timeLeft, w.feedback, isExam(w)>>

\* the timer effect, run after the render of w: its first branch arms the
\* interval (WritingTick), its second calls handleSubmit
timerEffectWriting(w) ==
  IF isExam(w) /\ w.hasStarted /\ w.timeLeft > 0 /\ w.feedback = Null
  THEN w
  ELSE IF w.timeLeft = 0 /\ w.feedback = Null /\ isExam(w)
  THEN [handleSubmit(w) EXCEPT
          !.autoSubmits = IF @ < AutoSubmitCap THEN @ + 1 ELSE @,
          !.shortExpired = @ \/ trimmedLength(w.text) < MinChars]
  ELSE w

\* the effects after the render of w, old being the render before: the timer
\* effect runs if its dependencies changed, with the values of the render; the
\* state set by the effect on [mode] leads to one more render
effectsWriting(old, w) ==
  LET e1 == IF timerDeps(old) # timerDeps(w)
            THEN LET r == timerEffectWriting(w)
                 IN [w EXCEPT !.isSubmitting = r.isSubmitting, !.evalRequests = r.evalRequests,
                              !.autoSubmits = r.autoSubmits, !.shortExpired = r.shortExpired]
            ELSE w
      w2 == IF old.mode # w.mode THEN modeEffect(e1) ELSE e1
  IN IF timerDeps(w) # timerDeps(w2) THEN timerEffectWriting(w2) ELSE w2

\* the next state of the WritingMode cells is the record r
CommitWriting(r) ==
  /\ r.topicRequests <= MaxWritingRequests
  /\ r.evalRequests <= MaxWritingRequests
  /\ mode' = r.mode
  /\ writingTopic' = r.topic
  /\ writingText' = r.text
  /\ isSubmitting' = r.isSubmitting
  /\ writingFeedback' = r.feedback
  /\ writingTimeLeft' = r.timeLeft
  /\ writingHasStarted' = r.hasStarted
  /\ isLoadingTopic' = r.isLoadingTopic
  /\ topicRequests' = r.topicRequests
  /\ evalRequests' = r.evalRequests
  /\ autoSubmits' = r.autoSubmits
  /\ pressedStart' = r.pressedStart
  /\ shortExpired' = r.shortExpired
  /\ UNCHANGED <<examVars, fetchVars, setupVars, freeVars>>

\* the start screen is rendered instead of the editor
startScreenShown(w) == isExam(w) /\ ~w.hasStarted

\* "Start Writing Now" button
ClickStartWriting ==
  /\ startScreenShown(WCur)
  /\ ~isLoadingTopic
  /\ CommitWriting(effectsWriting(WCur, [WCur EXCEPT !.hasStarted = TRUE, !.pressedStart = TRUE]))

\* generateWritingTopic resolved inside fetchTopic
WritingTopicResolves(st) ==
  /\ topicRequests > 0
  /\ LET w == [WCur EXCEPT !.topicRequests = @ - 1, !.isLoadingTopic = FALSE]
         t == generateWritingTopic(st)
     IN CommitWriting(effectsWriting(WCur,
          IF t.settled = "rejected"
          THEN [w EXCEPT !.topic = "Write a description of your typical daily routine"]
          ELSE [w EXCEPT !.topic = t.value]))

\* onChange of the textarea
TypeText(new) ==
  /\ ~startScreenShown(WCur)
  /\ ~(isSubmitting \/ writingFeedback # Null)
  /\ new # writingText
  /\ CommitWriting(effectsWriting(WCur, [WCur EXCEPT !.text = new]))

\* "Submit for Review" button
ClickSubmit ==
  /\ ~startScreenShown(WCur)
  /\ writingFeedback = Null
  /\ ~(isSubmitting \/ trimmedLength(writingText) < MinChars)
  /\ CommitWriting(effectsWriting(WCur, handleSubmit(WCur)))

\* n firings of the interval in a row: setTimeLeft(prev => prev - 1) each, the
\* interval being cleared by the render in which timeLeft is 0
ticksWriting(prev, n) == IF prev > n THEN prev - n ELSE 0

\* the 1 s interval fires (WritingStride times in a row)
WritingTick ==
  /\ isExam(WCur) /\ writingHasStarted /\ writingTimeLeft > 0 /\ writingFeedback = Null
  /\ CommitWriting(effectsWriting(WCur,
        [WCur EXCEPT !.timeLeft = ticksWriting(@, WritingStride)]))

\* processWritingInput resolved inside handleSubmit
WritingEvalResolves ==
  /\ evalRequests > 0
  /\ CommitWriting(effectsWriting(WCur,
        [WCur EXCEPT !.evalRequests = @ - 1, !.feedback = WritingFeedbackData,
                     !.isSubmitting = FALSE]))

\* processWritingInput rejected inside handleSubmit: alert, then `finally`
WritingEvalRejects ==
  /\ evalRequests > 0
  /\ CommitWriting(effectsWriting(WCur,
        [WCur EXCEPT !.evalRequests = @ - 1, !.isSubmitting = FALSE]))

\* "Try New Exam" / "Start New Practice" button
ClickTryNew ==
  /\ ~startScreenShown(WCur)
  /\ writingFeedback # Null
  /\ LET w == [WCur EXCEPT !.feedback = Null, !.text = Text(0, 0)]
     IN CommitWriting(effectsWriting(WCur,
          IF isExam(WCur)
          THEN fetchTopic([w EXCEPT !.hasStarted = FALSE, !.pressedStart = FALSE])
          ELSE w))

\* the user picks the other writing mode in the layout: App renders the same
\* WritingMode element with the new mode
SwitchWritingMode ==
  /\ mode \in {"WRITING_EXAM", "FREE_WRITING"}
  /\ CommitWriting(effectsWriting(WCur,
        [WCur EXCEPT !.mode = IF @ = "WRITING_EXAM" THEN "FREE_WRITING" ELSE "WRITING_EXAM",
                     !.pressedStart = FALSE]))

\* WritingMode after its mount effects, in either mode; the other components
\* are not mounted
InitWriting ==
  /\ mode \in {"WRITING_EXAM", "FREE_WRITING"}
  /\ writingTopic = ""
  /\ writingText = Text(0, 0)
  /\ isSubmitting = FALSE
  /\ writingFeedback = Null
  /\ writingTimeLeft = WritingTime
  /\ writingHasStarted = (mode # "WRITING_EXAM")
  /\ isLoadingTopic = (mode = "WRITING_EXAM")
  /\ topicRequests = IF mode = "WRITING_EXAM" THEN 1 ELSE 0
  /\ evalRequests = 0
  /\ autoSubmits = 0
  /\ pressedStart = FALSE
  /\ shortExpired = FALSE
  /\ initialPart = INTRO
  /\ isStandalone = FALSE
  /\ part = INTRO
  /\ hasStarted = FALSE
  /\ status = IDLE
  /\ aiMessage = "welcome"
  /\ currentFeedback = Null
  /\ resultsHistory = [p \in ExamPart |-> Null]
  /\ timeLeft = 0
  /\ totalTime = 0
  /\ isNewPartRef = TRUE
  /\ autoAdvanceRef = FALSE
  /\ turnCountRef = 0
  /\ isRecording = FALSE
  /\ mediaRecorderRef = Null
  /\ audio = Null
  /\ setupPending = EmptyBag
  /\ synthPending = EmptyBag
  /\ micPending = EmptyBag
  /\ evalPending = EmptyBag
  /\ expiryCount = 0
  /\ totalScore = Null
  /\ FetchIdle
  /\ SetupIdle
  /\ FreeIdle

NextWriting ==
  \/ ClickStartWriting
  \/ \E st \in Settlements("generateWritingTopic") : WritingTopicResolves(st)
  \/ \E new \in Texts : TypeText(new)
  \/ ClickSubmit
  \/ WritingTick
  \/ WritingEvalResolves
  \/ WritingEvalRejects
  \/ ClickTryNew
  \/ SwitchWritingMode

SpecWriting == InitWriting /\ [][NextWriting]_vars

\* ---------------------------------------------------------------------------
\* C1 - the per-part turn counter stays within 0..3 in every reachable state
\* ---------------------------------------------------------------------------
C1_TurnCounterWithinCap == turnCountRef \in 0..TurnLimit

\* ---------------------------------------------------------------------------
\* C2 - a successful evaluation that brings the turn counter to 3 completes
\* the part although the service asked to continue (moveNext false): status
\* becomes PART_COMPLETED, the record is committed under the part the answer
\* was recorded in, and no follow-up prompt (reply, playAiAudio) is started
\* ---------------------------------------------------------------------------
C2_CapOverridesContinue ==
  [][\A tok \in BagToSet(evalPending), fb \in ServiceFeedbacks :
       (EvalSucceeds(tok, FALSE, fb) /\ tok.nextTurn = TurnLimit)
         => /\ turnCountRef' = TurnLimit
            /\ status' = PART_COMPLETED
            /\ resultsHistory'[tok.part] = fb
            /\ synthPending' = synthPending
            /\ aiMessage' = aiMessage]_vars

\* the third turn of a part was evaluated and the part is completed with its record
C2_Witness ==
  /\ turnCountRef = TurnLimit
  /\ status = PART_COMPLETED
  /\ currentFeedback \in ServiceFeedbacks
  /\ resultsHistory[part] = currentFeedback

\* ---------------------------------------------------------------------------
\* C3 - the skip action (offered in USER_PREP and USER_SPEAKING, recording or
\* not) leaves, for the current part, a record with four zero sub-scores and
\* the skipped text in resultsHistory, and status PART_COMPLETED
\* ---------------------------------------------------------------------------
C3_SkipWritesZeroRecord ==
  [][ClickSkipPart =>
       /\ status' = PART_COMPLETED
       /\ resultsHistory'[part] # Null
       /\ resultsHistory'[part].taskAchievementScore = 0
       /\ resultsHistory'[part].pronunciationScore = 0
       /\ resultsHistory'[part].grammarScore = 0
       /\ resultsHistory'[part].fluencyCoherenceScore = 0
       /\ resultsHistory'[part].feedbackText = "Part skipped by student."]_vars

\* a part skipped while its answer was being recorded (the recorder was stopped)
C3_Witness ==
  /\ status = PART_COMPLETED
  /\ aiMessage = "skipped"
  /\ resultsHistory[part] = skippedFeedback
  /\ evalPending # EmptyBag

\* ---------------------------------------------------------------------------
\* C4 - the step in which processStudentInput fails leaves the turn counter,
\* resultsHistory and the current feedback record exactly as they were
\* ---------------------------------------------------------------------------
C4_FailedEvaluationChangesNothing ==
  [][\A tok \in BagToSet(evalPending) :
       EvalFails(tok) => UNCHANGED <<turnCountRef, resultsHistory, currentFeedback>>]_vars

\* a follow-up evaluation failed after one turn had been evaluated
C4_Witness ==
  /\ status = IDLE
  /\ aiMessage = "apology"
  /\ turnCountRef = 1
  /\ currentFeedback \in ServiceFeedbacks

\* ---------------------------------------------------------------------------
\* C5 - with the turn counter at 0 a finish-willingly action cannot take
\* effect: every finish step happens with the counter above 0 and an existing
\* current record, which is the record it commits (never an absent one)
\* ---------------------------------------------------------------------------
C5_NoFinishBeforeFirstTurn ==
  [][ClickFinishWillingly =>
       /\ turnCountRef > 0
       /\ currentFeedback # Null
       /\ resultsHistory'[part] = currentFeedback]_vars

\* the student may speak, no turn has been evaluated, and finishing is not offered
C5_Witness ==
  /\ View(Cur) = "main"
  /\ status = USER_SPEAKING
  /\ ~isRecording
  /\ turnCountRef = 0
  /\ currentFeedback = Null
  /\ ~finishButtonShown(Cur)

\* ---------------------------------------------------------------------------
\* C6 - the preparation countdown starts at 60, each firing of the interval
\* takes one second off, it never goes below 0, and the step in which it
\* reaches 0 is the one expiry transition: status USER_SPEAKING, countdown
\* 120, one recording requested; USER_PREP is never seen with the countdown
\* at 0, so the expiry cannot fire a second time
\* ---------------------------------------------------------------------------
C6_PrepCountdownExpiresOnce ==
  /\ [](timeLeft >= 0)
  /\ [](status = USER_PREP => (timeLeft > 0 /\ timeLeft <= PrepTime))
  /\ [][(status # USER_PREP /\ status' = USER_PREP) => timeLeft' = PrepTime]_vars
  /\ [][(status = USER_PREP /\ TimerTick) =>
          IF timeLeft > TickStride
          THEN /\ status' = USER_PREP
               /\ timeLeft' = timeLeft - TickStride
               /\ micPending' = micPending
          ELSE /\ status' = USER_SPEAKING
               /\ timeLeft' = SpeakTime
               /\ BagCardinality(micPending') = BagCardinality(micPending) + 1]_vars

\* the preparation countdown has run part of the way down with no manual action
C6_Witness ==
  /\ status = USER_PREP
  /\ timeLeft > 0
  /\ timeLeft < PrepTime

\* ---------------------------------------------------------------------------
\* C7 - a speaking countdown that reaches 0 while recording stops the recorder
\* and submits once (status PROCESSING), and no countdown fires its expiry
\* transition more than once (not again in a later turn)
\* ---------------------------------------------------------------------------
C7_SpeakingExpiryFiresOnce ==
  /\ [][(status = USER_SPEAKING /\ isRecording /\ TimerTick /\ timeLeft' = 0) =>
          /\ status' = PROCESSING
          /\ ~isRecording'
          /\ BagCardinality(evalPending') = BagCardinality(evalPending) + 1]_vars
  /\ [](expiryCount <= 1)

\* ---------------------------------------------------------------------------
\* C8 - on a follow-up turn (the first-turn flag is cleared) the completion
\* of the prompt playback leads to USER_SPEAKING with the countdown at 120
\* ---------------------------------------------------------------------------
C8_FollowUpCountdownReset ==
  [][(PlaybackCompletes /\ ~isNewPartRef) =>
       (status' = USER_SPEAKING /\ timeLeft' = SpeakTime)]_vars

\* ---------------------------------------------------------------------------
\* C9 - on the first turn of a part (the first-turn flag is set) the
\* completion of the prompt playback leads, in INTRO, to USER_SPEAKING with
\* countdown 120 and a recording requested, and in PICTURE or DISCUSSION to
\* USER_PREP with countdown 60 and no recording requested or started
\* ---------------------------------------------------------------------------
C9_FirstTurnAfterPlayback ==
  [][(PlaybackCompletes /\ isNewPartRef) =>
       IF part = INTRO
       THEN /\ status' = USER_SPEAKING
            /\ timeLeft' = SpeakTime
            /\ BagCardinality(micPending') = BagCardinality(micPending) + 1
       ELSE /\ status' = USER_PREP
            /\ timeLeft' = PrepTime
            /\ micPending' = micPending
            /\ isRecording' = isRecording]_vars

\* ---------------------------------------------------------------------------
\* C10 - a successful evaluation raises the turn counter by exactly 1 and
\* replaces the current record; the part completes (record committed, status
\* PART_COMPLETED) exactly when the service signalled move-next, or the
\* counter is at least 3, or the user asked to finish; otherwise the prompt
\* becomes the reply, status AI_SPEAKING, and resultsHistory is unchanged
\* ---------------------------------------------------------------------------
C10_SuccessfulEvaluation ==
  [][\A tok \in BagToSet(evalPending), mv \in BOOLEAN, fb \in ServiceFeedbacks :
       EvalSucceeds(tok, mv, fb) =>
         /\ turnCountRef' = turnCountRef + 1
         /\ currentFeedback' = fb
         /\ IF mv \/ turnCountRef' >= TurnLimit \/ autoAdvanceRef
            THEN /\ status' = PART_COMPLETED
                 /\ resultsHistory' = [resultsHistory EXCEPT ![tok.part] = fb]
            ELSE /\ aiMessage' = "reply"
                 /\ status' = AI_SPEAKING
                 /\ resultsHistory' = resultsHistory]_vars

\* ---------------------------------------------------------------------------
\* C11 - in a full exam the continue action leads to COMPLETED when the part
\* is DISCUSSION and otherwise advances to the next part with the turn counter
\* 0, the first-turn flag set and no current record; and these three still
\* hold at the moment the new part's prompt starts to play (its setup
\* resolves and playAiAudio is called)
\* ---------------------------------------------------------------------------
C11_ContinueAdvances ==
  /\ [][(ClickContinue /\ ~isStandalone) =>
          IF part = DISCUSSION
          THEN status' = COMPLETED /\ part' = part
          ELSE /\ part' = part + 1
               /\ turnCountRef' = 0
               /\ isNewPartRef'
               /\ currentFeedback' = Null
               /\ status' = PROCESSING]_vars
  /\ [][\A tok \in BagToSet(setupPending) :
          (SetupResolves(tok) /\ ~isStandalone /\ tok.part = part) =>
            (turnCountRef = 0 /\ isNewPartRef /\ currentFeedback = Null)]_vars

\* ---------------------------------------------------------------------------
\* C12 - COMPLETED is terminal: no step taken from a state with status
\* COMPLETED changes status, part, the turn counter or resultsHistory
\* ---------------------------------------------------------------------------
C12_CompletedIsTerminal ==
  [][status = COMPLETED =>
       UNCHANGED <<status, part, turnCountRef, resultsHistory>>]_vars

\* ---------------------------------------------------------------------------
\* C13 - at most one evaluation request is outstanding per part at any time
\* ---------------------------------------------------------------------------
C13_OneEvaluationOutstanding ==
  \A t \in BagToSet(evalPending) :
    /\ CopiesIn(t, evalPending) = 1
    /\ \A u \in BagToSet(evalPending) : u.part = t.part => u = t

\* ---------------------------------------------------------------------------
\* C14 - after a failed evaluation (apology shown, status IDLE) a user action
\* that records or submits the turn again is offered
\* ---------------------------------------------------------------------------
C14_RetryAfterFailure ==
  (status = IDLE /\ aiMessage = "apology") =>
    (startSpeakingShown(Cur) \/ submitAnswerShown(Cur) \/ prepButtonShown(Cur))

\* ---------------------------------------------------------------------------
\* C15 - resultsHistory is write-once per part: a record once written for a
\* part is never replaced by a later step (the component never replays a part)
\* ---------------------------------------------------------------------------
C15_ResultsWriteOnce ==
  [][\A p \in ExamPart :
       resultsHistory[p] # Null => resultsHistory'[p] = resultsHistory[p]]_vars

\* ---------------------------------------------------------------------------
\* C16 - the microphone is never recording while the status is AI_SPEAKING
\* ---------------------------------------------------------------------------
C16_NoRecordingWhileAiSpeaks == ~(status = AI_SPEAKING /\ isRecording)

\* ---------------------------------------------------------------------------
\* C17 - a new recorder is started only when no recorder is running: at the
\* step in which getUserMedia resolves and a recorder is created and started,
\* the previous recorder (mediaRecorderRef) is not recording
\* ---------------------------------------------------------------------------
C17_OneRecorderLive ==
  [][\A tok \in BagToSet(micPending) : MicGranted(tok) => ~isRecording]_vars

\* ---------------------------------------------------------------------------
\* C18 - a finish-willingly action (offered in USER_SPEAKING with the turn
\* counter above 0) writes the current feedback record under the current
\* part, sets PART_COMPLETED, issues no evaluation request and leaves the
\* turn counter unchanged
\* ---------------------------------------------------------------------------
C18_FinishWillinglyCommits ==
  [][ClickFinishWillingly =>
       /\ status = USER_SPEAKING
       /\ turnCountRef > 0
       /\ currentFeedback # Null
       /\ resultsHistory' = [resultsHistory EXCEPT ![part] = currentFeedback]
       /\ status' = PART_COMPLETED
       /\ evalPending' = evalPending
       /\ turnCountRef' = turnCountRef]_vars

\* a part finished by the user after one evaluated turn and its follow-up prompt
C18_Witness ==
  /\ status = PART_COMPLETED
  /\ aiMessage = "reply"
  /\ turnCountRef = 1
  /\ currentFeedback \in ServiceFeedbacks
  /\ resultsHistory[part] = currentFeedback
  /\ evalPending = EmptyBag
  /\ synthPending = EmptyBag
  /\ micPending # EmptyBag

\* ---------------------------------------------------------------------------
\* C19 - always 0 <= timeLeft <= totalTime; the interval fires only in
\* USER_PREP or USER_SPEAKING, and in every other status timeLeft changes
\* only when a new countdown is started (timeLeft and totalTime set together)
\* ---------------------------------------------------------------------------
C19_TimerInvariant ==
  /\ [](0 <= timeLeft /\ timeLeft <= totalTime)
  /\ [][TimerTick => status \in {USER_PREP, USER_SPEAKING}]_vars
  /\ [][status \notin {USER_PREP, USER_SPEAKING} =>
          \/ timeLeft' = timeLeft
          \/ timeLeft' = totalTime' /\ timeLeft' \in {PrepTime, SpeakTime}]_vars

\* a countdown stopped part of the way down while an answer is being evaluated
C19_Witness ==
  /\ status = PROCESSING
  /\ timeLeft > 0
  /\ timeLeft < totalTime
  /\ evalPending # EmptyBag

\* ---------------------------------------------------------------------------
\* C20 - in a full exam, when the status is COMPLETED, resultsHistory holds a
\* record for each of INTRO, PICTURE and DISCUSSION
\* ---------------------------------------------------------------------------
C20_AllPartsRecorded ==
  (~isStandalone /\ status = COMPLETED) =>
    \A p \in ExamPart : resultsHistory[p] # Null

\* ---------------------------------------------------------------------------
\* C27 - when getUserMedia is denied, no recorder is created or started, no
\* evaluation request is issued, and the turn counter, resultsHistory and the
\* status are unchanged
\* ---------------------------------------------------------------------------
C27_MicDeniedStartsNothing ==
  [][\A tok \in BagToSet(micPending) :
       MicDenied(tok) =>
         UNCHANGED <<isRecording, mediaRecorderRef, evalPending, turnCountRef,
                     resultsHistory, status>>]_vars

\* the microphone was denied on the first turn and the countdown then ran out:
\* no recorder was ever created and nothing was submitted
C27_Witness ==
  /\ status = USER_SPEAKING
  /\ timeLeft = 0
  /\ ~isRecording
  /\ mediaRecorderRef = Null
  /\ micPending = EmptyBag
  /\ evalPending = EmptyBag
  /\ turnCountRef = 0

\* ---------------------------------------------------------------------------
\* C28 - the skip action issues no evaluation request (a recording it stops
\* is discarded)
\* ---------------------------------------------------------------------------
C28_SkipDiscardsRecording ==
  [][ClickSkipPart => evalPending' = evalPending]_vars

\* ---------------------------------------------------------------------------
\* C29 - an evaluation result of a recording made in another part than the
\* current one leaves the turn counter, the status and the current record
\* unchanged and writes no resultsHistory entry under the current part
\* ---------------------------------------------------------------------------
C29_LateEvaluationIgnored ==
  [][\A tok \in BagToSet(evalPending), mv \in BOOLEAN, fb \in ServiceFeedbacks :
       (EvalSucceeds(tok, mv, fb) /\ tok.part # part) =>
         /\ UNCHANGED <<turnCountRef, status, currentFeedback>>
         /\ resultsHistory'[part] = resultsHistory[part]]_vars

\* ---------------------------------------------------------------------------
\* C30 - the current part is always INTRO, PICTURE or DISCUSSION and changes
\* only by the continue action of a full exam, taken in PART_COMPLETED, to
\* the next part
\* ---------------------------------------------------------------------------
C30_PartAdvancesByOne ==
  /\ [](part \in ExamPart)
  /\ [][part' # part =>
          /\ ClickContinue
          /\ ~isStandalone
          /\ status = PART_COMPLETED
          /\ part' = part + 1]_vars

\* a full exam that has advanced twice and is in the last part
C30_Witness ==
  /\ ~isStandalone
  /\ part = DISCUSSION
  /\ resultsHistory[INTRO] # Null
  /\ resultsHistory[PICTURE] # Null
  /\ status = USER_PREP

\* ---------------------------------------------------------------------------
\* C23: synthesizeSpeech never rejects: however its fetchWithRetry call settles
\* it resolves to an audio URL, null or 'FALLBACK_HANDLED'; and when playAiAudio
\* receives 'FALLBACK_HANDLED' while the status is AI_SPEAKING, the same step
\* leaves AI_SPEAKING and attaches no audio whose `ended` would have to be
\* awaited.  (speakWithBrowserFallback only ever resolves its promise.)
\* ---------------------------------------------------------------------------
C23_SpeechNeverRejects ==
  /\ [](\A st \in Settlements("synthesizeSpeech") :
          /\ synthesizeSpeech(st).settled = "resolved"
          /\ synthesizeSpeech(st).value \in {"url", "null", "FALLBACK_HANDLED"})
  /\ [][\A tok \in BagToSet(synthPending) :
          (SynthResolves(tok, Resolved("FALLBACK_HANDLED")) /\ status = AI_SPEAKING)
            => (status' # AI_SPEAKING /\ audio' = audio)]_vars

\* a part's first prompt is over with no audio element playing: preparation runs
C23_Witness ==
  /\ status = USER_PREP /\ timeLeft = PrepTime /\ turnCountRef = 0
  /\ audio = Null /\ synthPending = EmptyBag

\* ---------------------------------------------------------------------------
\* C24: setupNextPart for PICTURE or DISCUSSION always reaches playAiAudio with
\* the instructions: a failed topic request yields 'City vs Village', failed or
\* empty image requests only shorten the list of images, the catch block of
\* setupNextPart is never entered, and a setup that has started ends with the
\* status AI_SPEAKING and the instructions as the message
\* ---------------------------------------------------------------------------
C24_SetupReachesPrompt ==
  /\ [](setupStage # "failed")
  /\ [][\A st \in Settlements("generateExamTopic") :
          (TopicSettles(st) /\ st.settled = "rejected")
            => (IF part = PICTURE THEN secretTopicRef' ELSE question') = "City vs Village"]_vars
  /\ [][\A stA, stB \in Settlements("generateExamImage") :
          ImagesSettle(stA, stB)
            => /\ Len(examImages') =
                    Cardinality({s \in {<<1, stA>>, <<2, stB>>} :
                                   s[2].settled = "resolved" /\ s[2].value = "image"})
               /\ status' = AI_SPEAKING
               /\ aiMessage' = "instructions"]_vars
  /\ (setupStage \in {"topic", "images"})
       ~> (setupStage = "done" /\ status = AI_SPEAKING /\ aiMessage = "instructions")

\* the PICTURE part plays its instructions on the default topic without an image
C24_Witness ==
  /\ setupStage = "done" /\ part = PICTURE /\ secretTopicRef = "City vs Village"
  /\ examImages = << >> /\ status = AI_SPEAKING /\ aiMessage = "instructions"

\* ---------------------------------------------------------------------------
\* C25: a call of fetchWithRetry ends: fn runs at most 6 times, the waits before
\* the retries are 2000, 4000, 8000, 16000, 32000 ms in this order, the first
\* resolution of fn is returned with no further attempt, an error is thrown
\* only as the error of the last attempt (a quota error only after 6 attempts),
\* and every call started returns or throws
\* ---------------------------------------------------------------------------
C25_RetryTerminates ==
  /\ [](calls <= DefaultRetries + 1)
  /\ [](/\ Len(waited) <= DefaultRetries
        /\ \A i \in 1..Len(waited) : waited[i] = DefaultDelay * 2^(i - 1)
        /\ fetchState \in {"calling", "returned", "thrown"} => calls = Len(waited) + 1)
  /\ [][\A response \in FnResponses(caller) :
          FnResolves(response)
            => /\ fetchState' = "returned"
               /\ fetchValue' = fnValue(caller, response)
               /\ calls' = calls]_vars
  /\ [][\A error \in FetchErrors :
          (FnRejects(error) /\ fetchState' = "thrown")
            => /\ fetchError' = error
               /\ isQuotaError(error) => calls = DefaultRetries + 1]_vars
  /\ [][fetchState = "returned" /\ fetchState' = "calling" => calls' = 1]_vars
  /\ (fetchState \in {"calling", "waiting"}) ~> (fetchState \in {"returned", "thrown"})

\* a call whose six attempts all met a quota error has thrown the last one
C25_Witness ==
  /\ fetchState = "thrown" /\ calls = 6 /\ isQuotaError(fetchError)
  /\ waited = <<2000, 4000, 8000, 16000, 32000>>

\* ---------------------------------------------------------------------------
\* C21: in the results view (status COMPLETED) the total shown is the sum, over
\* the parts that have a record, of the record's four sub-scores; a part with
\* the skipped record adds 0
\* ---------------------------------------------------------------------------
C21_TotalIsSumOfSubScores ==
  status = COMPLETED =>
    LET partScore(p) ==
          IF resultsHistory[p] = Null THEN 0
          ELSE IF resultsHistory[p] = skippedFeedback THEN 0
          ELSE resultsHistory[p].taskAchievementScore + resultsHistory[p].pronunciationScore
                 + resultsHistory[p].grammarScore + resultsHistory[p].fluencyCoherenceScore
    IN totalScore = partScore(INTRO) + partScore(PICTURE) + partScore(DISCUSSION)

\* the example: (4,4,4,4), (8,7,9,8) and (9,8,7,9) are shown as 81
C21_Witness ==
  /\ status = COMPLETED
  /\ resultsHistory[INTRO] = Feedback(4, 4, 4, 4, "evaluated")
  /\ resultsHistory[PICTURE] = Feedback(8, 7, 9, 8, "evaluated")
  /\ resultsHistory[DISCUSSION] = Feedback(9, 8, 7, 9, "evaluated")
  /\ totalScore = 81

\* ---------------------------------------------------------------------------
\* C22: every record held (currentFeedback, resultsHistory) has its four
\* sub-scores within 0..maxScore of its part, so that a part's score is at most
\* pMax (20/40/40) and the total shown at most 100
\* ---------------------------------------------------------------------------
C22_ScoresWithinMaxima ==
  /\ \A p \in ExamPart : resultsHistory[p] # Null =>
        /\ \A k \in ScoreKeys : resultsHistory[p][k] \in 0..maxScore(p)
        /\ addScores(0, resultsHistory[p]) <= pMax(p)
  /\ currentFeedback # Null => \A k \in ScoreKeys : currentFeedback[k] \in 0..maxScore(part)
  /\ status = COMPLETED => totalScore <= 100

\* ---------------------------------------------------------------------------
\* C26: in FreeSpeakingMode, once the reply and the analysis of a submission
\* have both completed (in either order), the feedback of that submission is
\* on the transcript entry of that submission's reply and on no other entry
\* ---------------------------------------------------------------------------
C26_FeedbackOnOwnReply ==
  \A n \in 1..MaxSubmissions :
    (reply[n] = "done" /\ analysis[n] = "done")
      => \A i \in 1..Len(messages) :
            (messages[i].feedback = n)
              <=> (messages[i].role = "ai" /\ messages[i].text = "reply" /\ messages[i].of = n)

\* ---------------------------------------------------------------------------
\* C31: whenever the status is PART_COMPLETED there is a current feedback
\* record, resultsHistory has a record for the current part, and the summary
\* with its continue button is rendered
\* ---------------------------------------------------------------------------
C31_PartCompletedHasRecord ==
  status = PART_COMPLETED =>
    /\ currentFeedback # Null
    /\ resultsHistory[part] # Null
    /\ continueButtonShown(Cur)

\* ---------------------------------------------------------------------------
\* C34: a standalone session stays in its initial part, and its continue
\* button leads from the summary to COMPLETED whichever part it is
\* ---------------------------------------------------------------------------
C34_StandaloneStaysInPart ==
  /\ [](isStandalone => part = initialPart)
  /\ [][(isStandalone /\ ClickContinue)
          => (status = PART_COMPLETED /\ status' = COMPLETED /\ part' = part)]_vars

\* a standalone PICTURE session has reached the results view
C34_Witness ==
  /\ isStandalone /\ initialPart = PICTURE /\ part = PICTURE
  /\ status = COMPLETED /\ resultsHistory[PICTURE] # Null

\* ---------------------------------------------------------------------------
\* C32: fetchWithRetry waits and retries only after an error isQuotaError
\* accepts (and only while retries are left); any other error is thrown by the
\* attempt that met it, with no wait and no further attempt, and
\* processStudentInput hands that rejection to its caller unchanged
\* ---------------------------------------------------------------------------
C32_OnlyQuotaErrorsRetried ==
  /\ [][\A error \in FetchErrors :
          FnRejects(error)
            => IF isQuotaError(error) /\ retries > 0
               THEN fetchState' = "waiting"
               ELSE /\ fetchState' = "thrown"
                    /\ fetchError' = error
                    /\ waited' = waited
                    /\ calls' = calls]_vars
  /\ [](\A error \in FetchErrors : processStudentInput(Rejected(error)) = Rejected(error))
  /\ []((fetchState = "thrown" /\ caller = "processStudentInput")
          => callResult = Rejected(fetchError))

\* processStudentInput rejected after one attempt with an error that is not a
\* quota error
C32_Witness ==
  /\ fetchState = "thrown" /\ caller = "processStudentInput"
  /\ calls = 1 /\ waited = << >>
  /\ ~isQuotaError(fetchError)
  /\ callResult = Rejected(fetchError)

\* ---------------------------------------------------------------------------
\* C33: in FreeSpeakingMode every submission made has exactly one 'user' entry
\* in the transcript and never more than one 'ai' entry (its reply or the
\* apology), and exactly one once its reply and analysis have completed, also
\* when fetchWithRetry ran the two requests again after a quota error
\* ---------------------------------------------------------------------------
C33_OneEntryPairPerSubmission ==
  \A n \in 1..MaxSubmissions :
    LET entries(role) == {i \in 1..Len(messages) : messages[i].role = role /\ messages[i].of = n}
    IN /\ Cardinality(entries("user")) = IF n <= submitted THEN 1 ELSE 0
       /\ Cardinality(entries("ai")) <= 1
       /\ (reply[n] = "done" /\ analysis[n] = "done") => Cardinality(entries("ai")) = 1

\* ---------------------------------------------------------------------------
\* C35: every writing-exam attempt begins with the countdown at 1200 s (on the
\* start screen timeLeft is WritingTime, also after "Try New Exam"), and before
\* the student has pressed start in that attempt the interval does not fire and
\* the timer effect submits nothing
\* ---------------------------------------------------------------------------
C35_AttemptStartsAtFullTime ==
  /\ [](startScreenShown(WCur) => writingTimeLeft = WritingTime)
  /\ [][WritingTick => pressedStart]_vars
  /\ [][autoSubmits' # autoSubmits => pressedStart']_vars

\* ---------------------------------------------------------------------------
\* C36: in WritingMode at most one processWritingInput request is outstanding,
\* whether handleSubmit ran from the button or from the countdown reaching 0
\* while an earlier submission was pending
\* ---------------------------------------------------------------------------
C36_OneWritingRequestOutstanding == evalRequests <= 1

\* ---------------------------------------------------------------------------
\* C37: handleSubmit on a text whose trimmed length is under 20 sends no
\* request and sets no feedback, from the button or at expiry; once the
\* countdown has expired on such a text, the timer effect does not call
\* handleSubmit again
\* ---------------------------------------------------------------------------
C37_ShortTextNeverSubmitted ==
  /\ [](trimmedLength(writingText) < MinChars => handleSubmit(WCur) = WCur)
  /\ [][(trimmedLength(writingText) < MinChars /\ writingFeedback = Null
          /\ ~(WritingEvalResolves \/ WritingEvalRejects))
        => (evalRequests' <= evalRequests /\ writingFeedback' = Null)]_vars
  /\ [][shortExpired => autoSubmits' = autoSubmits]_vars

====
